---- MODULE Spec2Model ----
(***************************************************************************)
(* Model of src/src/OrgChartCanvas.tsx: the seeded tree generator with its *)
(* breadth-first depth pass and layered layout, the camera transform, the  *)
(* visibility predicate, the click hit test, search focus and fit to       *)
(* content, together with the React render/effect cycle that decides which *)
(* closure each handler runs in.                                           *)
(*                                                                         *)
(* Numbers the program keeps as doubles are modelled as exact rationals    *)
(* <<numerator, denominator>> in lowest terms with a positive denominator. *)
(***************************************************************************)
EXTENDS Integers, Sequences, FiniteSets, TLC

VARIABLES
    pc,            \* position of the render cycle: "gen", "bfs", "effects", "rerender", "idle"
    count,         \* useState count (line 126)
    maxChildren,   \* second argument of the running generateTree call
    nodes,         \* the node list (being built while pc is "gen" or "bfs")
    childCount,    \* generateTree's childCount map
    q,             \* generateTree's breadth-first queue
    level,         \* const level of the running loop iteration (line 64), "none" outside
    levelRnd,      \* the values rnd() returned while line 64 computed level
    amtMaxDep,     \* the amtMax the effect of line 141 last ran for (-1: never)
    maxDepth,      \* useState maxDepth (line 127)
    minAmt,        \* useState minAmt (line 140)
    clickMinAmt,   \* minAmt captured by the bound onClick closure (line 260-283)
    collapsed,     \* useState collapsed (line 158)
    query,         \* useState query (line 161)
    transform,     \* transform.current (line 151)
    viewport,      \* the canvas rectangle's width and height
    dragging,      \* closure variable dragging (line 206)
    lastPos,       \* closure variables lastX, lastY (line 206)
    downRef,       \* downRef.current (line 148)
    suppressClick, \* suppressClickRef.current (line 146)
    zooming,       \* zoomingRef.current (line 147)
    timers,        \* number of pending 350 ms timers of onWheel
    raf,           \* the pending animation-frame callbacks and drawReq.current (line 323)
    lod,           \* useState lod (line 131)
    painted,       \* what the last run of draw put on the canvas (lines 354-405)
    budget         \* user events left to the run, in all and per class (bounds the exploration)

vars == <<pc, count, maxChildren, nodes, childCount, q, level, levelRnd, amtMaxDep, maxDepth, minAmt,
          clickMinAmt, collapsed, query, transform, viewport, dragging, lastPos,
          downRef, suppressClick, zooming, timers, raf, lod, painted, budget>>

genVars == <<maxChildren, nodes, childCount, q, level, levelRnd>>
uiVars == <<amtMaxDep, maxDepth, minAmt, clickMinAmt, collapsed, query, transform,
            viewport, dragging, lastPos, downRef, suppressClick, zooming, timers,
            raf, lod, painted>>

-----------------------------------------------------------------------------
(* Exact rational arithmetic *)

Abs(i) == IF i < 0 THEN -i ELSE i

RECURSIVE GCD(_, _)
GCD(a, b) == IF b = 0 THEN a ELSE GCD(b, a % b)

RNorm(n, d) ==
    LET g == GCD(Abs(n), Abs(d))
        s == IF d < 0 THEN -1 ELSE 1
    IN  <<(s * n) \div g, (s * d) \div g>>

R(i) == <<i, 1>>

\* Sums and products cancel common factors before they multiply, and the order
\* is decided by comparing integer parts and then the reciprocals of the
\* fractional parts, so that intermediate values stay small.
RAdd(a, b) ==
    LET g == GCD(a[2], b[2])
    IN  RNorm(a[1] * (b[2] \div g) + b[1] * (a[2] \div g), (a[2] \div g) * b[2])
RNeg(a) == <<-a[1], a[2]>>
RSub(a, b) == RAdd(a, RNeg(b))
RMul(a, b) ==
    LET g1 == GCD(Abs(a[1]), b[2])
        g2 == GCD(Abs(b[1]), a[2])
    IN  RNorm((a[1] \div g1) * (b[1] \div g2), (a[2] \div g2) * (b[2] \div g1))
RInv(a) == RNorm(a[2], a[1])
RDiv(a, b) == RMul(a, RInv(b))

RECURSIVE RLe(_, _)
RLe(a, b) ==
    LET qa == a[1] \div a[2]
        qb == b[1] \div b[2]
        ra == a[1] % a[2]
        rb == b[1] % b[2]
    IN  IF qa # qb THEN qa < qb
        ELSE IF ra = 0 THEN TRUE
        ELSE IF rb = 0 THEN FALSE
        ELSE RLe(<<b[2], rb>>, <<a[2], ra>>)
RLt(a, b) == ~RLe(b, a)
RMax(a, b) == IF RLt(a, b) THEN b ELSE a
RMin(a, b) == IF RLt(b, a) THEN b ELSE a

Max(a, b) == IF a < b THEN b ELSE a
Min(a, b) == IF b < a THEN b ELSE a

-----------------------------------------------------------------------------
(* Bounds of the model *)

\* The largest node count (the count slider of line 433 runs from 1000 to 15000).
MaxTotal == 3
\* The largest node value (line 65 draws values in 0 .. 199999).
MaxValue == 1
\* The largest fan-out cap generateTree is called with besides the program's 4.
MaxFanout == 2

(* Program constants *)

DefaultMaxChildren == 4
limitTries == 8
rowGap == 120
colGapBase == 60
minLayerWidth == 1200

-----------------------------------------------------------------------------
(* generateTree *)

Root == [id |-> 1, parentId |-> 0, value |-> 0, depth |-> 0, x |-> R(0), y |-> R(0)]

CountOf(cc, pid) == IF pid \in DOMAIN cc THEN cc[pid] ELSE 0

\* The values 1 + floor(pow(r, 1.2) * len) takes as r ranges over [0, 1).
Biased(len) == 1 .. len

ClampPid(biased, len) == Max(1, Min(len, biased))

\* The parent ids the retry loop can end with, entering try t with pid.
RECURSIVE PickFrom(_, _, _, _, _)
PickFrom(t, pid, len, cc, mc) ==
    IF t >= limitTries THEN {pid}
    ELSE UNION { LET p == ClampPid(b, len)
                 IN  IF CountOf(cc, p) < mc THEN {p}
                     ELSE PickFrom(t + 1, p, len, cc, mc)
                 : b \in Biased(len) }

\* The candidate drawn over the id being created instead of nodes.length.
pickParentId_OverId(len, cc, mc) == PickFrom(0, 1, len + 1, cc, mc)

pickParentId(len, cc, mc) == PickFrom(0, 1, len, cc, mc)

NewNode(id, pid, value) ==
    [id |-> id, parentId |-> pid, value |-> value, depth |-> 0, x |-> R(0), y |-> R(0)]

\* The values of rnd() tried for line 64, in hundredths: one below and one
\* above all of the thresholds 0.15, 0.4 and 0.7.
RndValues == {10, 80}

\* Line 64 on the next values us of the random sequence: every test that is
\* reached calls rnd() again.
LevelOf(us) ==
    IF us[1] < 15 THEN "S"
    ELSE IF us[2] < 40 THEN "A"
    ELSE IF us[3] < 70 THEN "B"
    ELSE "C"

\* The number of values of the sequence line 64 takes.
LevelRndUsed(us) ==
    IF us[1] < 15 THEN 1
    ELSE IF us[2] < 40 THEN 2
    ELSE 3

\* One iteration of the loop of lines 62-67. The level is only read by the fill
\* colour of draw (line 394); the node records of the model do not carry it.
GenNode ==
    /\ pc = "gen"
    /\ Len(nodes) < count
    /\ \E us \in [1 .. 3 -> RndValues] :
          /\ level' = LevelOf(us)
          /\ levelRnd' = SubSeq(us, 1, LevelRndUsed(us))
    /\ \E pid \in pickParentId(Len(nodes), childCount, maxChildren), value \in 0 .. MaxValue :
          /\ nodes' = Append(nodes, NewNode(Len(nodes) + 1, pid, value))
          /\ childCount' = [k \in DOMAIN childCount \cup {pid} |->
                               IF k = pid THEN CountOf(childCount, pid) + 1
                               ELSE childCount[k]]
    /\ UNCHANGED <<pc, count, maxChildren, q, budget>>
    /\ UNCHANGED uiVars

\* childrenMap.get(pid) || []: the child ids in node-list order.
RECURSIVE KidsFrom(_, _, _)
KidsFrom(ns, pid, i) ==
    IF i > Len(ns) THEN <<>>
    ELSE (IF ns[i].parentId = pid THEN <<ns[i].id>> ELSE <<>>) \o KidsFrom(ns, pid, i + 1)

Kids(ns, pid) == KidsFrom(ns, pid, 1)

\* byId.get(id): the position of the node with this id (0 when absent).
ById(ns, id) ==
    IF \E i \in 1 .. Len(ns) : ns[i].id = id
    THEN CHOOSE i \in 1 .. Len(ns) : ns[i].id = id
    ELSE 0

\* Loop exit of line 62, the index maps, and the queue seeded with the root.
StartBfs ==
    /\ pc = "gen"
    /\ ~(Len(nodes) < count)
    /\ nodes' = [nodes EXCEPT ![1].depth = 0]
    /\ q' = <<1>>
    /\ pc' = "bfs"
    /\ level' = "none"
    /\ levelRnd' = <<>>
    /\ UNCHANGED <<count, maxChildren, childCount, budget>>
    /\ UNCHANGED uiVars

\* c.depth = p.depth + 1 for every kid (line 85), from position i on.
RECURSIVE SetDepthFrom(_, _, _, _)
SetDepthFrom(ns, kids, d, i) ==
    IF i > Len(ns) THEN <<>>
    ELSE <<IF \E k \in 1 .. Len(kids) : kids[k] = ns[i].id
           THEN [ns[i] EXCEPT !.depth = d]
           ELSE ns[i]>> \o SetDepthFrom(ns, kids, d, i + 1)

SetDepth(ns, kids, d) == SetDepthFrom(ns, kids, d, 1)

\* q.shift() followed by q.push(cid) for every kid (lines 81-85).
BfsPush_NoPush(queue, kids) == Tail(queue)

BfsPush(queue, kids) == Tail(queue) \o kids

\* One iteration of the while loop of lines 80-87.
BfsStep ==
    /\ pc = "bfs"
    /\ Len(q) > 0
    /\ LET pid == Head(q)
           kids == Kids(nodes, pid)
       IN  /\ nodes' = SetDepth(nodes, kids, nodes[ById(nodes, pid)].depth + 1)
           /\ q' = BfsPush(q, kids)
    /\ UNCHANGED <<pc, count, maxChildren, childCount, level, levelRnd, budget>>
    /\ UNCHANGED uiVars

\* layers.get(d).length, and the index of the node at position i in its layer
\* (layers keep node-list order, lines 90-94).
LayerSize(ns, d) == Cardinality({ j \in 1 .. Len(ns) : ns[j].depth = d })
LayerIndex(ns, i) == Cardinality({ j \in 1 .. i - 1 : ns[j].depth = ns[i].depth })

LayerWidth(n) == Max(n * colGapBase, minLayerWidth)

\* x = (i + 0.5) * (width / n) - width / 2 over the common denominator 2n, and
\* y = d * rowGap (lines 97-105).
LayoutX(i, n) == RNorm((2 * i + 1 - n) * LayerWidth(n), 2 * n)

LayoutY(d) == R(d * rowGap)

Layout(ns) ==
    [i \in 1 .. Len(ns) |->
        [ns[i] EXCEPT !.x = LayoutX(LayerIndex(ns, i), LayerSize(ns, ns[i].depth)),
                      !.y = LayoutY(ns[i].depth)]]

\* Lines 89-110: the layout, after which generateTree returns and the render commits.
LayoutDone ==
    /\ pc = "bfs"
    /\ Len(q) = 0
    /\ nodes' = Layout(nodes)
    /\ pc' = "effects"
    /\ UNCHANGED <<count, maxChildren, childCount, q, level, levelRnd, budget>>
    /\ UNCHANGED uiVars

-----------------------------------------------------------------------------
(* Derived values of a render *)

RECURSIVE AmtMaxFrom(_, _, _)
AmtMaxFrom(ns, i, m) ==
    IF i > Len(ns) THEN m
    ELSE AmtMaxFrom(ns, i + 1, IF ns[i].value > m THEN ns[i].value ELSE m)

\* nodes.reduce((m, n) => n.value > m ? n.value : m, 0)
amtMax(ns) == AmtMaxFrom(ns, 1, 0)

-----------------------------------------------------------------------------
(* isVisible *)

\* The loop of lines 179-184 with `hops` iterations left, standing at node cur.
RECURSIVE AncestorWalk(_, _, _, _)
AncestorWalk(ns, coll, cur, hops) ==
    IF hops <= 0 THEN TRUE
    ELSE IF ns[cur].parentId = 0 THEN TRUE
    ELSE IF ns[cur].parentId \in coll THEN FALSE
    ELSE AncestorWalk(ns, coll, ById(ns, ns[cur].parentId), hops - 1)

\* The walk cut one hop short.
WalkHops_Short(md) == md - 1

\* The number of iterations of the loop of line 180.
WalkHops(md) == md

\* The depth limit taken one level too deep.
isVisible_DepthOffByOne(ns, md, ma, coll, i) ==
    IF ns[i].depth > md + 1 THEN FALSE
    ELSE IF ns[i].value < ma THEN FALSE
    ELSE AncestorWalk(ns, coll, i, WalkHops(md))

\* A collapsed node hidden together with its descendants.
isVisible_SelfHidden(ns, md, ma, coll, i) ==
    IF ns[i].depth > md THEN FALSE
    ELSE IF ns[i].value < ma THEN FALSE
    ELSE IF ns[i].id \in coll THEN FALSE
    ELSE AncestorWalk(ns, coll, i, WalkHops(md))

\* isVisible of the render that had these nodes, maxDepth, minAmt and collapsed;
\* i is the node's position in the list.
isVisible(ns, md, ma, coll, i) ==
    IF ns[i].depth > md THEN FALSE
    ELSE IF ns[i].value < ma THEN FALSE
    ELSE AncestorWalk(ns, coll, i, WalkHops(md))

VisibleSet(ns, md, ma, coll) == { i \in 1 .. Len(ns) : isVisible(ns, md, ma, coll, i) }

-----------------------------------------------------------------------------
(* Camera *)

InitScale == <<3, 5>>
InitTy == 80
MinScale == <<1, 10>>
MaxScale == R(3)
MaxFitScale == <<5, 2>>
FocusScale == <<3, 5>>
FitPad == 60
HitRadius == 8
DragThreshold == 5

worldToScreen(t, w) ==
    <<RAdd(RMul(w[1], t.scale), t.tx), RAdd(RMul(w[2], t.scale), t.ty)>>

screenToWorld(t, s) ==
    <<RDiv(RSub(s[1], t.tx), t.scale), RDiv(RSub(s[2], t.ty), t.scale)>>

\* requestDraw: cancel the callback drawReq.current names, schedule a new one.
FreshId(queue) == CHOOSE i \in 1 .. Cardinality(queue) + 1 : i \notin queue

\* requestDraw without the cancelAnimationFrame of line 326.
CancelFrame_Never(r) == r.queue

CancelFrame(r) == r.queue \ {r.req}

requestDraw(r) ==
    LET left == CancelFrame(r)
        id == FreshId(left)
    IN  [queue |-> left \cup {id}, req |-> id]

\* Math.min and Math.max folded over a non-empty set of numbers.
RMinOver(S) == CHOOSE e \in S : \A o \in S : RLe(e, o)

RMaxOver(S) == CHOOSE e \in S : \A o \in S : RLe(o, e)

ClampFit(s) == RMax(MinScale, RMin(MaxFitScale, s))

\* The bounding box of the visible nodes (lines 302-307): <<minX, maxX, minY, maxY>>.
FitBox(ns, vis) ==
    LET xs == { ns[i].x : i \in vis }
        ys == { ns[i].y : i \in vis }
    IN  <<RMinOver(xs), RMaxOver(xs), RMinOver(ys), RMaxOver(ys)>>

\* The padding taken off the viewport once instead of on both sides.
FitRawScale_PadOnce(ns, vis, vp, padPx) ==
    LET xs == { ns[i].x : i \in vis }
        ys == { ns[i].y : i \in vis }
        w == RMax(R(1), RSub(RMaxOver(xs), RMinOver(xs)))
        h == RMax(R(1), RSub(RMaxOver(ys), RMinOver(ys)))
    IN  RMin(RDiv(R(vp[1] - padPx), w), RDiv(R(vp[2] - padPx), h))

\* Math.min(sx, sy) of lines 309-312, for a non-empty set of visible nodes.
FitRawScale(ns, vis, vp, padPx) ==
    LET b == FitBox(ns, vis)
        w == RMax(R(1), RSub(b[2], b[1]))
        h == RMax(R(1), RSub(b[4], b[3]))
        sx == RDiv(R(vp[1] - padPx * 2), w)
        sy == RDiv(R(vp[2] - padPx * 2), h)
    IN  RMin(sx, sy)

\* What fitToContent does when no node is visible, with the early return of line 308.
FitNone_Recentre(vp, t) ==
    [scale |-> t.scale, tx |-> <<vp[1], 2>>, ty |-> <<vp[2], 2>>]

FitNone(vp, t) == t

\* fitToContent(padPx) of a render with these nodes and filters: the new transform.
fitToContent(ns, md, ma, coll, vp, t, padPx) ==
    LET vis == VisibleSet(ns, md, ma, coll)
    IN  IF vis = {} THEN FitNone(vp, t)
        ELSE LET b == FitBox(ns, vis)
                 s == ClampFit(FitRawScale(ns, vis, vp, padPx))
             IN  [scale |-> s,
                  tx |-> RSub(<<vp[1], 2>>, RMul(RDiv(RAdd(b[1], b[2]), R(2)), s)),
                  ty |-> RSub(<<vp[2], 2>>, RMul(RDiv(RAdd(b[3], b[4]), R(2)), s))]

-----------------------------------------------------------------------------
(* Names and the search match *)

UpperCase == <<"A", "B", "C", "D", "E", "F", "G", "H", "I", "J", "K", "L", "M",
               "N", "O", "P", "Q", "R", "S", "T", "U", "V", "W", "X", "Y", "Z">>
LowerCase == <<"a", "b", "c", "d", "e", "f", "g", "h", "i", "j", "k", "l", "m",
               "n", "o", "p", "q", "r", "s", "t", "u", "v", "w", "x", "y", "z">>
DigitChar == <<"0", "1", "2", "3", "4", "5", "6", "7", "8", "9">>

toLowerCase(str) ==
    [k \in 1 .. Len(str) |->
        IF \E j \in 1 .. Len(UpperCase) : UpperCase[j] = str[k]
        THEN LowerCase[CHOOSE j \in 1 .. Len(UpperCase) : UpperCase[j] = str[k]]
        ELSE str[k]]

RECURSIVE trimStart(_)
trimStart(str) ==
    IF Len(str) > 0 /\ Head(str) = " " THEN trimStart(Tail(str)) ELSE str

RECURSIVE trimEnd(_)
trimEnd(str) ==
    IF Len(str) > 0 /\ str[Len(str)] = " "
    THEN trimEnd(SubSeq(str, 1, Len(str) - 1))
    ELSE str

trim(str) == trimEnd(trimStart(str))

\* String(id)
RECURSIVE String(_)
String(n) ==
    IF n < 10 THEN <<DigitChar[n + 1]>>
    ELSE String(n \div 10) \o <<DigitChar[(n % 10) + 1]>>

RECURSIVE padStart(_, _, _)
padStart(str, len, c) == IF Len(str) >= len THEN str ELSE padStart(<<c>> \o str, len, c)

NamePad == 5

\* "ROOT" for the root (line 43), `M${id.toString().padStart(5,'0')}` otherwise (line 66).
Name(n) ==
    IF n.parentId = 0 THEN <<"R", "O", "O", "T">>
    ELSE <<"M">> \o padStart(String(n.id), NamePad, "0")

includes(hay, needle) ==
    \E o \in 0 .. Len(hay) - Len(needle) : SubSeq(hay, o + 1, o + Len(needle)) = needle

\* The name compared without folding its case.
Matches_CaseSensitive(n, qs) == includes(Name(n), qs) \/ String(n.id) = qs

Matches(n, qs) == includes(toLowerCase(Name(n)), qs) \/ String(n.id) = qs

\* nodes.find(...) from position i on: the position of the first match, 0 when
\* there is none.
RECURSIVE FindFrom(_, _, _)
FindFrom(ns, qs, i) ==
    IF i > Len(ns) THEN 0
    ELSE IF Matches(ns[i], qs) THEN i
    ELSE FindFrom(ns, qs, i + 1)

FindMatch(ns, qs) == FindFrom(ns, qs, 1)

\* focusOnFirstMatch of a render with these nodes and query: the new transform,
\* and whether it got as far as requestDraw.
FocusTarget(ns, qy) ==
    LET qs == toLowerCase(trim(qy))
    IN  IF Len(qs) = 0 THEN 0 ELSE FindMatch(ns, qs)

focusOnFirstMatch(ns, qy, vp, t) ==
    LET i == FocusTarget(ns, qy)
        targetScale == RMax(FocusScale, t.scale)
    IN  IF i = 0 THEN t
        ELSE [scale |-> targetScale,
              tx |-> RSub(<<vp[1], 2>>, RMul(ns[i].x, targetScale)),
              ty |-> RSub(<<vp[2], 4>>, RMul(ns[i].y, targetScale))]

-----------------------------------------------------------------------------
(* The click hit test *)

\* dx*dx + dy*dy <= r*r with r = 8 / scale (lines 269-274)
InRadius(n, w, t) ==
    LET dx == RSub(n.x, w[1])
        dy == RSub(n.y, w[2])
        r == RDiv(R(HitRadius), t.scale)
    IN  RLe(RAdd(RMul(dx, dx), RMul(dy, dy)), RMul(r, r))

\* The loop of lines 271-275 from position i on, in the closure that captured md,
\* ma and coll: the position of the first hit, 0 when nothing is hit.
RECURSIVE HitFrom(_, _, _, _, _, _, _)
HitFrom(ns, md, ma, coll, t, w, i) ==
    IF i > Len(ns) THEN 0
    ELSE IF isVisible(ns, md, ma, coll, i) /\ InRadius(ns[i], w, t) THEN i
    ELSE HitFrom(ns, md, ma, coll, t, w, i + 1)

HitTest(ns, md, ma, coll, t, s) == HitFrom(ns, md, ma, coll, t, screenToWorld(t, s), 1)

Toggle(coll, id) == IF id \in coll THEN coll \ {id} ELSE coll \cup {id}

-----------------------------------------------------------------------------
(* draw (lines 330-418): what it puts on the canvas *)

LodScale == <<7, 20>>
DrawPad == 40

\* The canvas before the first draw.
Blank == [mode |-> "blank", groups |-> {}, drawn |-> {}]

\* Lines 347-349: <<x0, x1, y0, y1>>, the viewport in world coordinates, padded.
ViewRect(t, vp) ==
    LET wMin == screenToWorld(t, <<R(0), R(0)>>)
        wMax == screenToWorld(t, <<R(vp[1]), R(vp[2])>>)
        pad == RDiv(R(DrawPad), t.scale)
    IN  <<RSub(wMin[1], pad), RAdd(wMax[1], pad), RSub(wMin[2], pad), RAdd(wMax[2], pad)>>

\* The culling test of lines 358 and 391.
OutsideRect(n, rect) ==
    \/ RLt(n.x, rect[1])
    \/ RLt(rect[2], n.x)
    \/ RLt(n.y, rect[3])
    \/ RLt(rect[4], n.y)

\* indexByParent (lines 114-122): the children of pid, in list order.
indexByParent(ns, pid) ==
    LET IsChild(c) == c.parentId = pid
    IN  SelectSeq(ns, IsChild)

\* The children counted whatever their value.
ClusterKids_Unfiltered(ns, ma, pid) == indexByParent(ns, pid)

\* kids of line 359
ClusterKids(ns, ma, pid) ==
    LET Kept(cc) == cc.value >= ma
    IN  SelectSeq(indexByParent(ns, pid), Kept)

\* kids.reduce((s, cc) => s + cc.value, 0) of line 360
RECURSIVE SumValues(_)
SumValues(kids) ==
    IF kids = <<>> THEN 0 ELSE SumValues(Tail(kids)) + Head(kids).value

\* The loop of lines 356-362, from position i on: the entries of groups.
RECURSIVE ClusterGroups(_, _, _, _)
ClusterGroups(ns, rect, ma, i) ==
    IF i > Len(ns) THEN {}
    ELSE LET n == ns[i]
             kids == ClusterKids(ns, ma, n.id)
             rest == ClusterGroups(ns, rect, ma, i + 1)
         IN  IF n.depth # 1 \/ OutsideRect(n, rect) THEN rest
             ELSE {[id |-> n.id, x |-> n.x, y |-> n.y, count |-> Len(kids),
                    sum |-> SumValues(kids)]} \cup rest

\* The loop of lines 389-404: the ids of the nodes drawn.
DrawnNodes(ns, md, ma, coll, rect) ==
    { ns[i].id : i \in { j \in 1 .. Len(ns) :
                            isVisible(ns, md, ma, coll, j) /\ ~OutsideRect(ns[j], rect) } }

draw(ns, md, ma, coll, t, vp, ld) ==
    LET rect == ViewRect(t, vp)
    IN  IF ld /\ RLt(t.scale, LodScale)
        THEN [mode |-> "cluster", groups |-> ClusterGroups(ns, rect, ma, 1), drawn |-> {}]
        ELSE [mode |-> "nodes", groups |-> {}, drawn |-> DrawnNodes(ns, md, ma, coll, rect)]

-----------------------------------------------------------------------------
(* Inputs of the environment *)

MaxEvents == 2
MaxRegens == 1
MaxDepthSlider == 2

InitMaxDepth == 6

InitViewport == <<720, 600>>
Viewports == {InitViewport, <<160, 120>>}
DownPoints == {<<0, 0>>}
MovePoints == {<<3, 4>>, <<30, 40>>}
WheelPoints == {<<0, 0>>, <<80, 60>>}
ClickOffsets == {<<0, 0>>, <<0, 6>>, <<0, 9>>}
Queries == {<<>>, <<" ", "1", " ">>, <<"M", "0">>, <<"x">>}

\* Math.exp(-deltaY * 0.001) for the wheel deltas of the model, to two digits.
WheelDeltas == {-693, 4605}
Factor(deltaY) ==
    CASE deltaY = -693 -> R(2)
      [] deltaY = 4605 -> <<1, 100>>

\* The range input of line 456: 0 .. amtMax in steps of max(1, round(amtMax / 100)).
SliderStep(am) == Max(1, (2 * (IF am = 0 THEN 1 ELSE am) + 100) \div 200)
SliderValues(am) == { v \in 0 .. am : v % SliderStep(am) = 0 }

ClickPoints(ns, t) ==
    { LET c == worldToScreen(t, <<ns[i].x, ns[i].y>>)
      IN  <<RAdd(c[1], R(o[1])), RAdd(c[2], R(o[2]))>>
      : i \in 1 .. Len(ns), o \in ClickOffsets }

-----------------------------------------------------------------------------
(* The initial state: the first render has just called generateTree *)

\* The exploration is bounded by the number of user events of a run, in all and
\* of each class: runs of at most MaxEvents events of any class, and the longer
\* runs of a search session (collapse, filter, type a query, locate) and of a
\* drag session and of a wheel session.
EventClasses == {"pointer", "wheel", "clicks", "settings", "view", "regens"}

AnyEvents ==
    [events |-> MaxEvents, pointer |-> MaxEvents, wheel |-> MaxEvents,
     clicks |-> MaxEvents, settings |-> MaxEvents, view |-> MaxEvents,
     regens |-> MaxRegens]

SearchSession ==
    [events |-> MaxEvents + 2, pointer |-> 0, wheel |-> 0, clicks |-> MaxEvents - 1,
     settings |-> MaxEvents, view |-> MaxEvents - 1, regens |-> 0]

\* A drag followed by clicks: down, move, up, click, down, click.
DragSession ==
    [events |-> MaxEvents + 4, pointer |-> MaxEvents + 2, wheel |-> 0,
     clicks |-> MaxEvents, settings |-> 0, view |-> 0, regens |-> 0]

\* A wheel gesture followed by a click: wheel, wheel, down, click.
WheelSession ==
    [events |-> MaxEvents + 2, pointer |-> MaxEvents - 1, wheel |-> MaxEvents,
     clicks |-> MaxEvents - 1, settings |-> 0, view |-> 0, regens |-> 0]

Profiles == {AnyEvents, SearchSession, DragSession, WheelSession}

\* One more event of class cls, while the run has any left.
Spend(cls) ==
    /\ budget.events > 0
    /\ budget[cls] > 0
    /\ budget' = [budget EXCEPT !.events = @ - 1, ![cls] = @ - 1]


InitGenVars ==
    /\ nodes = <<Root>>
    /\ childCount = (1 :> 0)
    /\ q = <<>>
    /\ level = "none"
    /\ levelRnd = <<>>

InitUi ==
    /\ amtMaxDep = -1
    /\ maxDepth = InitMaxDepth
    /\ minAmt = 0
    /\ clickMinAmt = 0
    /\ collapsed = {}
    /\ query = <<>>
    /\ transform = [scale |-> InitScale, tx |-> R(0), ty |-> R(InitTy)]
    /\ dragging = FALSE
    /\ lastPos = <<0, 0>>
    /\ downRef = <<0, 0>>
    /\ suppressClick = FALSE
    /\ zooming = FALSE
    /\ timers = 0
    /\ raf = [queue |-> {}, req |-> 0]
    /\ lod = TRUE
    /\ painted = Blank

Init ==
    /\ pc = "gen"
    /\ count \in 1 .. MaxTotal
    /\ maxChildren = DefaultMaxChildren
    /\ InitGenVars
    /\ InitUi
    /\ viewport = InitViewport
    /\ budget \in Profiles

-----------------------------------------------------------------------------
(* The commit of a render whose nodes are new: the effects in source order *)

RunEffects ==
    /\ pc = "effects"
    /\ amtMaxDep' = amtMax(nodes)
    /\ pc' = IF amtMaxDep # amtMax(nodes) /\ minAmt > amtMax(nodes)
             THEN "rerender" ELSE "idle"
    /\ clickMinAmt' = minAmt
    /\ transform' = fitToContent(nodes, maxDepth, minAmt, collapsed, viewport,
                                 transform, FitPad)
    /\ raf' = requestDraw(requestDraw(raf))
    /\ UNCHANGED <<count, maxDepth, minAmt, collapsed, query, viewport, dragging,
                   lastPos, downRef, suppressClick, zooming, timers, budget>>
    /\ UNCHANGED <<lod, painted>>
    /\ UNCHANGED genVars

\* The render that setMinAmt(amtMax) of line 141 asked for; none of its effects
\* has a changed dependency.
Rerender ==
    /\ pc = "rerender"
    /\ minAmt' = amtMax(nodes)
    /\ pc' = "idle"
    /\ UNCHANGED <<count, amtMaxDep, maxDepth, clickMinAmt, collapsed, query,
                   transform, viewport, dragging, lastPos, downRef, suppressClick,
                   zooming, timers, raf, budget>>
    /\ UNCHANGED <<lod, painted>>
    /\ UNCHANGED genVars

-----------------------------------------------------------------------------
(* The control panel *)

StartGenerate(total) ==
    /\ Spend("regens")
    /\ count' = total
    /\ maxChildren' = DefaultMaxChildren
    /\ nodes' = <<Root>>
    /\ childCount' = (1 :> 0)
    /\ q' = <<>>
    /\ level' = "none"
    /\ levelRnd' = <<>>
    /\ pc' = "gen"
    /\ UNCHANGED uiVars

\* onChange of the count slider (line 433)
SetCount ==
    /\ pc = "idle"
    /\ \E c \in 1 .. MaxTotal : c # count /\ StartGenerate(c)

\* The regenerate button (line 435): setSeed(s => s + 1)
Reseed ==
    /\ pc = "idle"
    /\ StartGenerate(count)

\* onChange of the depth slider (line 439), with the effects that depend on maxDepth
SetMaxDepth ==
    /\ pc = "idle"
    /\ Spend("settings")
    /\ \E d \in 1 .. MaxDepthSlider :
          /\ d # maxDepth
          /\ maxDepth' = d
          /\ transform' = fitToContent(nodes, d, minAmt, collapsed, viewport,
                                       transform, FitPad)
    /\ clickMinAmt' = minAmt
    /\ raf' = requestDraw(requestDraw(raf))
    /\ UNCHANGED <<pc, count, amtMaxDep, minAmt, collapsed, query, viewport, dragging,
                   lastPos, downRef, suppressClick, zooming, timers>>
    /\ UNCHANGED <<lod, painted>>
    /\ UNCHANGED genVars

\* onChange of the amount slider (line 456): no effect depends on minAmt
SetMinAmt ==
    /\ pc = "idle"
    /\ Spend("settings")
    /\ \E v \in SliderValues(amtMax(nodes)) : v # minAmt /\ minAmt' = v
    /\ UNCHANGED <<pc, count, amtMaxDep, maxDepth, clickMinAmt, collapsed, query,
                   transform, viewport, dragging, lastPos, downRef, suppressClick,
                   zooming, timers, raf>>
    /\ UNCHANGED <<lod, painted>>
    /\ UNCHANGED genVars

\* onChange of the search box (line 461)
SetQuery ==
    /\ pc = "idle"
    /\ Spend("settings")
    /\ \E qy \in Queries : qy # query /\ query' = qy
    /\ UNCHANGED <<pc, count, amtMaxDep, maxDepth, minAmt, clickMinAmt, collapsed,
                   transform, viewport, dragging, lastPos, downRef, suppressClick,
                   zooming, timers, raf>>
    /\ UNCHANGED <<lod, painted>>
    /\ UNCHANGED genVars

\* The locate button and Enter in the search box (lines 461-462)
FocusOnFirstMatch ==
    /\ pc = "idle"
    /\ Spend("view")
    /\ transform' = focusOnFirstMatch(nodes, query, viewport, transform)
    /\ raf' = IF FocusTarget(nodes, query) = 0 THEN raf ELSE requestDraw(raf)
    /\ UNCHANGED <<pc, count, amtMaxDep, maxDepth, minAmt, clickMinAmt, collapsed,
                   query, viewport, dragging, lastPos, downRef, suppressClick,
                   zooming, timers>>
    /\ UNCHANGED <<lod, painted>>
    /\ UNCHANGED genVars

\* The reset-view button (lines 426, 459): fitToContent(60) of the current render
ResetView ==
    /\ pc = "idle"
    /\ Spend("view")
    /\ transform' = fitToContent(nodes, maxDepth, minAmt, collapsed, viewport,
                                 transform, FitPad)
    /\ raf' = requestDraw(raf)
    /\ UNCHANGED <<pc, count, amtMaxDep, maxDepth, minAmt, clickMinAmt, collapsed,
                   query, viewport, dragging, lastPos, downRef, suppressClick,
                   zooming, timers>>
    /\ UNCHANGED <<lod, painted>>
    /\ UNCHANGED genVars

\* onChange of the LOD checkbox (line 444), with the redraw effect of line 424
SetLod ==
    /\ pc = "idle"
    /\ Spend("settings")
    /\ lod' = ~lod
    /\ raf' = requestDraw(raf)
    /\ UNCHANGED <<pc, count, amtMaxDep, maxDepth, minAmt, clickMinAmt, collapsed,
                   query, transform, viewport, dragging, lastPos, downRef,
                   suppressClick, zooming, timers, painted>>
    /\ UNCHANGED genVars

\* onResize (lines 191-197)
Resize ==
    /\ pc = "idle"
    /\ Spend("settings")
    /\ \E vp \in Viewports : vp # viewport /\ viewport' = vp
    /\ raf' = requestDraw(raf)
    /\ UNCHANGED <<pc, count, amtMaxDep, maxDepth, minAmt, clickMinAmt, collapsed,
                   query, transform, dragging, lastPos, downRef, suppressClick,
                   zooming, timers>>
    /\ UNCHANGED <<lod, painted>>
    /\ UNCHANGED genVars

-----------------------------------------------------------------------------
(* Pointer, wheel and click handlers *)

MaxTimers == 2

onPointerDown ==
    /\ pc = "idle"
    /\ Spend("pointer")
    /\ \E p \in DownPoints :
          /\ lastPos' = p
          /\ downRef' = p
    /\ dragging' = TRUE
    /\ suppressClick' = FALSE
    /\ UNCHANGED <<pc, count, amtMaxDep, maxDepth, minAmt, clickMinAmt, collapsed,
                   query, transform, viewport, zooming, timers, raf>>
    /\ UNCHANGED <<lod, painted>>
    /\ UNCHANGED genVars

\* The threshold taken as 50 px.
BeyondThreshold_Wide(p, d) ==
    (p[1] - d[1]) * (p[1] - d[1]) + (p[2] - d[2]) * (p[2] - d[2])
        > (10 * DragThreshold) * (10 * DragThreshold)

\* Math.hypot(dx, dy) > 5, compared on the squares
BeyondThreshold(p, d) ==
    (p[1] - d[1]) * (p[1] - d[1]) + (p[2] - d[2]) * (p[2] - d[2])
        > DragThreshold * DragThreshold

Pan(t, dx, dy) == [t EXCEPT !.tx = RAdd(@, R(dx)), !.ty = RAdd(@, R(dy))]

onPointerMove ==
    /\ pc = "idle"
    /\ dragging
    /\ Spend("pointer")
    /\ \E p \in MovePoints \cup DownPoints :
          /\ lastPos' = p
          /\ suppressClick' = IF BeyondThreshold(p, downRef) THEN TRUE ELSE suppressClick
          /\ transform' = Pan(transform, p[1] - lastPos[1], p[2] - lastPos[2])
    /\ raf' = requestDraw(raf)
    /\ UNCHANGED <<pc, count, amtMaxDep, maxDepth, minAmt, clickMinAmt, collapsed,
                   query, viewport, dragging, downRef, zooming, timers>>
    /\ UNCHANGED <<lod, painted>>
    /\ UNCHANGED genVars

onPointerUp ==
    /\ pc = "idle"
    /\ Spend("pointer")
    /\ dragging' = FALSE
    /\ UNCHANGED <<pc, count, amtMaxDep, maxDepth, minAmt, clickMinAmt, collapsed,
                   query, transform, viewport, lastPos, downRef, suppressClick,
                   zooming, timers, raf>>
    /\ UNCHANGED <<lod, painted>>
    /\ UNCHANGED genVars

\* The clamp of line 239 without its upper limit.
ClampScale_NoUpper(s) == RMax(MinScale, s)

ClampScale(s) == RMax(MinScale, RMin(MaxScale, s))

\* ns of line 239
NewScale(t, factor) == ClampScale(RMul(t.scale, factor))

\* The translation computed with the scale before it is clamped.
AnchorScale_Unclamped(t, factor) == RMul(t.scale, factor)

\* The scale the translation of lines 240-241 is computed with: ns.
AnchorScale(t, factor) == NewScale(t, factor)

\* Lines 237-242: zoom by factor, anchored at screen point m.
ZoomAt(t, m, factor) ==
    LET before == screenToWorld(t, m)
        ns == NewScale(t, factor)
        as == AnchorScale(t, factor)
    IN  [scale |-> ns,
         tx |-> RAdd(t.tx, RSub(RSub(m[1], RMul(before[1], as)), t.tx)),
         ty |-> RAdd(t.ty, RSub(RSub(m[2], RMul(before[2], as)), t.ty))]

onWheel ==
    /\ pc = "idle"
    /\ timers < MaxTimers
    /\ Spend("wheel")
    /\ zooming' = TRUE
    /\ suppressClick' = TRUE
    /\ timers' = timers + 1
    /\ \E deltaY \in WheelDeltas, m \in WheelPoints :
          transform' = ZoomAt(transform, <<R(m[1]), R(m[2])>>, Factor(deltaY))
    /\ raf' = requestDraw(raf)
    /\ UNCHANGED <<pc, count, amtMaxDep, maxDepth, minAmt, clickMinAmt, collapsed,
                   query, viewport, dragging, lastPos, downRef>>
    /\ UNCHANGED <<lod, painted>>
    /\ UNCHANGED genVars

\* The callback of setTimeout(..., 350) of line 232
TimerFire ==
    /\ pc = "idle"
    /\ timers > 0
    /\ timers' = timers - 1
    /\ zooming' = FALSE
    /\ UNCHANGED <<pc, count, amtMaxDep, maxDepth, minAmt, clickMinAmt, collapsed,
                   query, transform, viewport, dragging, lastPos, downRef,
                   suppressClick, raf, budget>>
    /\ UNCHANGED <<lod, painted>>
    /\ UNCHANGED genVars

\* The minAmt the bound onClick closure reads.
ClickClosureMinAmt == clickMinAmt

\* onClick (lines 262-280) and, when it toggles, the effects that depend on collapsed
onClick ==
    /\ pc = "idle"
    /\ Spend("clicks")
    /\ \E s \in ClickPoints(nodes, transform) :
          IF suppressClick \/ zooming
          THEN /\ suppressClick' = FALSE
               /\ UNCHANGED <<collapsed, raf, clickMinAmt>>
          ELSE LET hit == HitTest(nodes, maxDepth, ClickClosureMinAmt, collapsed,
                                  transform, s)
               IN  /\ hit # 0
                   /\ collapsed' = Toggle(collapsed, nodes[hit].id)
                   /\ raf' = requestDraw(requestDraw(raf))
                   /\ clickMinAmt' = minAmt
                   /\ UNCHANGED suppressClick
    /\ UNCHANGED <<pc, count, amtMaxDep, maxDepth, minAmt, query, transform, viewport,
                   dragging, lastPos, downRef, zooming, timers>>
    /\ UNCHANGED <<lod, painted>>
    /\ UNCHANGED genVars

\* The animation-frame callback: drawRef.current(), the draw of the last render
Frame ==
    /\ pc = "idle"
    /\ \E id \in raf.queue : raf' = [raf EXCEPT !.queue = @ \ {id}]
    /\ painted' = draw(nodes, maxDepth, minAmt, collapsed, transform, viewport, lod)
    /\ UNCHANGED <<pc, count, amtMaxDep, maxDepth, minAmt, clickMinAmt, collapsed,
                   query, transform, viewport, dragging, lastPos, downRef,
                   suppressClick, zooming, timers, lod, budget>>
    /\ UNCHANGED genVars

-----------------------------------------------------------------------------
(* Specifications *)

Next ==
    \/ GenNode
    \/ StartBfs
    \/ BfsStep
    \/ LayoutDone
    \/ RunEffects
    \/ Rerender
    \/ SetCount
    \/ Reseed
    \/ SetMaxDepth
    \/ SetMinAmt
    \/ SetQuery
    \/ FocusOnFirstMatch
    \/ ResetView
    \/ Resize
    \/ SetLod
    \/ onPointerDown
    \/ onPointerMove
    \/ onPointerUp
    \/ onWheel
    \/ TimerFire
    \/ onClick
    \/ Frame

Spec == Init /\ [][Next]_vars

\* The program left to itself: a pending 350 ms timer fires, and no user event
\* has to happen.
SpecTimers == Init /\ [][Next]_vars /\ WF_vars(TimerFire)

\* generateTree alone, for every total and every fan-out cap of the bounds.
InitGen ==
    /\ pc = "gen"
    /\ count \in 1 .. MaxTotal
    /\ maxChildren \in (1 .. MaxFanout) \cup {DefaultMaxChildren}
    /\ InitGenVars
    /\ InitUi
    /\ viewport = InitViewport
    /\ budget = AnyEvents

NextGen ==
    \/ GenNode
    \/ StartBfs
    \/ BfsStep
    \/ LayoutDone

SpecGen == InitGen /\ [][NextGen]_vars

\* generateTree runs to completion: the render that called it is not preempted.
SpecGenLive == InitGen /\ [][NextGen]_vars /\ WF_vars(NextGen)

\* generateTree called with any total, also below 1.
InitGenAny ==
    /\ pc = "gen"
    /\ count \in -1 .. MaxTotal
    /\ maxChildren \in (1 .. MaxFanout) \cup {DefaultMaxChildren}
    /\ InitGenVars
    /\ InitUi
    /\ viewport = InitViewport
    /\ budget = AnyEvents

SpecGenAny == InitGenAny /\ [][NextGen]_vars

-----------------------------------------------------------------------------
(* Reference notions the claims are stated with *)

\* generateTree has returned.
TreeDone == pc \notin {"gen", "bfs"}

Ids(ns) == { ns[i].id : i \in 1 .. Len(ns) }

\* The ids on the parent chain of the node at position i, up to the root.
RECURSIVE AncestorIdsFrom(_, _, _)
AncestorIdsFrom(ns, i, fuel) ==
    IF fuel = 0 \/ i = 0 THEN {}
    ELSE IF ns[i].parentId = 0 THEN {}
    ELSE {ns[i].parentId} \cup AncestorIdsFrom(ns, ById(ns, ns[i].parentId), fuel - 1)

AncestorIds(ns, i) == AncestorIdsFrom(ns, i, Len(ns))

\* The positions of the proper descendants of the node with id c.
Descendants(ns, c) == { i \in 1 .. Len(ns) : c \in AncestorIds(ns, i) }

CollapseSets == SUBSET (1 .. MaxTotal)
DepthLimits == 0 .. MaxTotal
Thresholds == 0 .. MaxValue + 1

-----------------------------------------------------------------------------
(* Claims *)

\* C1: for every generated tree, collapse set, maxDepth >= 0 and minValue,
\* isVisible(n) is true exactly when n.depth <= maxDepth, n.value >= minValue and
\* no proper ancestor of n on the whole parent chain is collapsed: bounding the
\* walk to maxDepth hops never changes the answer.
C1_VisibleIffUnboundedCheck ==
    TreeDone =>
        \A coll \in CollapseSets, md \in DepthLimits, ma \in Thresholds :
            \A i \in 1 .. Len(nodes) :
                isVisible(nodes, md, ma, coll, i)
                    <=> /\ nodes[i].depth <= md
                        /\ nodes[i].value >= ma
                        /\ AncestorIds(nodes, i) \cap coll = {}

\* A node two levels down is within the depth limit and hidden only by its
\* collapsed grandparent, the last hop the bounded walk makes.
C1_Witness ==
    /\ TreeDone
    /\ \E i \in 1 .. Len(nodes) :
          /\ nodes[i].depth = 2
          /\ isVisible(nodes, 2, 0, {}, i)
          /\ ~isVisible(nodes, 2, 0, {1}, i)

\* C2: with maxDepth and minValue unchanged, adding an id c to the collapse set
\* hides every descendant of c and changes the visibility of no other node (so
\* collapsing the root hides every other node and leaves the root as it was), and
\* removing c again restores the visible set.
C2_CollapseHidesDescendantsOnly ==
    TreeDone =>
        \A coll \in CollapseSets, md \in DepthLimits, ma \in Thresholds :
            \A c \in Ids(nodes) \ coll :
                LET added == Toggle(coll, c)
                IN  /\ c \in added
                    /\ \A i \in 1 .. Len(nodes) :
                          IF i \in Descendants(nodes, c)
                          THEN ~isVisible(nodes, md, ma, added, i)
                          ELSE isVisible(nodes, md, ma, added, i)
                                  <=> isVisible(nodes, md, ma, coll, i)
                    /\ c = 1 =>
                          VisibleSet(nodes, md, ma, added)
                              = VisibleSet(nodes, md, ma, coll) \cap {1}
                    /\ VisibleSet(nodes, md, ma, Toggle(added, c))
                          = VisibleSet(nodes, md, ma, coll)

\* Collapsing a node other than the root hides a child of it that was visible
\* and leaves the node itself visible.
C2_Witness ==
    /\ TreeDone
    /\ \E c \in Ids(nodes) \ {1} : \E i \in Descendants(nodes, c) :
          /\ isVisible(nodes, MaxTotal, 0, {}, i)
          /\ ~isVisible(nodes, MaxTotal, 0, Toggle({}, c), i)
          /\ isVisible(nodes, MaxTotal, 0, Toggle({}, c), ById(nodes, c))

\* C3: generateTree returns exactly `total` nodes with ids 1..total, only node 1
\* has no parent, every other node k has its parent among 1..k-1, so every
\* parent exists and no node is its own ancestor.
C3_GeneratedTreeWellFormed ==
    TreeDone =>
        /\ Len(nodes) = count
        /\ \A i \in 1 .. Len(nodes) : nodes[i].id = i
        /\ { i \in 1 .. Len(nodes) : nodes[i].parentId = 0 } = {1}
        /\ \A k \in 2 .. Len(nodes) :
              /\ nodes[k].parentId \in 1 .. k - 1
              /\ ById(nodes, nodes[k].parentId) # 0
              /\ nodes[k].id \notin AncestorIds(nodes, k)

\* A finished tree of the largest size in which the retry loop ran out of tries
\* and a node got more children than the cap.
C3_Witness ==
    /\ TreeDone
    /\ Len(nodes) = MaxTotal
    /\ \E k \in DOMAIN childCount : childCount[k] > maxChildren

\* Once generateTree has returned, the root has depth 0 and every other node's
\* depth is its parent's depth + 1, the number of its ancestors, and not 0.
DepthsConsistent ==
    TreeDone =>
        /\ nodes[1].depth = 0
        /\ \A k \in 2 .. Len(nodes) :
              /\ nodes[k].depth = nodes[ById(nodes, nodes[k].parentId)].depth + 1
              /\ nodes[k].depth = Cardinality(AncestorIds(nodes, k))
              /\ nodes[k].depth > 0

\* C4: after generateTree the root has depth 0 and every other node's depth is
\* its parent's depth + 1, the number of its ancestors (so none keeps the
\* placeholder 0); and the breadth-first pass terminates: generateTree returns.
C4_DepthsAssignedAndBfsTerminates == []DepthsConsistent /\ <>TreeDone

\* A finished tree in which the pass reached a node two levels below the root.
C4_Witness ==
    /\ TreeDone
    /\ \E k \in 1 .. Len(nodes) : nodes[k].depth = 2

\* C5: in every reachable state the camera scale is positive and within
\* [0.1, 3], whatever wheel zooms, pans, fits and focuses came before.
C5_ScaleInRange ==
    /\ RLt(R(0), transform.scale)
    /\ RLe(MinScale, transform.scale)
    /\ RLe(transform.scale, MaxScale)

\* A wheel zoom whose product went past the upper limit left the scale at 3.
C5_Witness ==
    /\ zooming
    /\ transform.scale = MaxScale

\* C6: for every reachable camera and every wheel event at a screen point m with
\* any factor, clamped or not, screenToWorld(m) after the zoom is the world point
\* screenToWorld(m) was before it.
C6_ZoomKeepsPointerWorldPoint ==
    \A m \in WheelPoints, d \in WheelDeltas :
        LET mr == <<R(m[1]), R(m[2])>>
        IN  screenToWorld(ZoomAt(transform, mr, Factor(d)), mr)
                = screenToWorld(transform, mr)

\* A wheel zoom has been clamped at the lower limit, and from the camera it left
\* a further zoom is clamped at either limit.
C6_Witness ==
    /\ zooming
    /\ transform.scale = MinScale
    /\ \E d \in WheelDeltas :
          NewScale(transform, Factor(d)) # RMul(transform.scale, Factor(d))

\* The camera is what fitToContent(60) leaves for the current render.
Fitted ==
    transform = fitToContent(nodes, maxDepth, minAmt, collapsed, viewport, transform,
                             FitPad)

Visible == VisibleSet(nodes, maxDepth, minAmt, collapsed)

\* The node at position i maps inside [pad, width - pad] x [pad, height - pad].
InsidePadding(i, padPx) ==
    LET s == worldToScreen(transform, <<nodes[i].x, nodes[i].y>>)
    IN  /\ RLe(R(padPx), s[1])
        /\ RLe(s[1], R(viewport[1] - padPx))
        /\ RLe(R(padPx), s[2])
        /\ RLe(s[2], R(viewport[2] - padPx))

\* C7 as stated: after fitToContent(pad) with at least one visible node, every
\* visible node maps through the resulting camera inside
\* [pad, width - pad] x [pad, height - pad].
C7_FitKeepsVisibleInsidePadding ==
    (TreeDone /\ Fitted /\ Visible # {}) =>
        \A i \in Visible : InsidePadding(i, FitPad)

\* C7 amended: the same, provided the fitting scale min(sx, sy) is not below the
\* lower limit 0.1 of the clamp of line 312 (the viewport is at least 2 * pad
\* wide and high and the content is not too large for it).
C7_FitInsidePaddingUnlessClampedUp ==
    (/\ TreeDone
     /\ Fitted
     /\ Visible # {}
     /\ RLe(MinScale, FitRawScale(nodes, Visible, viewport, FitPad))) =>
        \A i \in Visible : InsidePadding(i, FitPad)

\* The camera was fitted to three visible nodes with neither limit of the clamp
\* in the way: the outermost nodes sit on the padding lines.
C7_Witness ==
    /\ pc = "idle"
    /\ Fitted
    /\ Cardinality(Visible) = 3
    /\ ClampFit(FitRawScale(nodes, Visible, viewport, FitPad))
          = FitRawScale(nodes, Visible, viewport, FitPad)
    /\ \E i \in Visible :
          worldToScreen(transform, <<nodes[i].x, nodes[i].y>>)[1] = R(FitPad)

\* C8: a click toggles the first node in list order that is visible under the
\* current maxDepth, minValue and collapse set and lies within 8 / scale of the
\* clicked world point; it never toggles a node isVisible reports hidden under
\* the current filters, also after minValue alone has changed.
C8_ClickTogglesFirstVisibleHit ==
    [][collapsed' # collapsed =>
          \E s \in ClickPoints(nodes, transform) :
              LET hit == HitTest(nodes, maxDepth, minAmt, collapsed, transform, s)
              IN  /\ hit # 0
                  /\ isVisible(nodes, maxDepth, minAmt, collapsed, hit)
                  /\ collapsed' = Toggle(collapsed, nodes[hit].id)]_vars

\* C9: when no node is visible, focusOnFirstMatch leaves scale, tx and ty as
\* they were, whatever the query, also one that matches a node's name or id.
C9_FocusNoOpWhenNothingVisible ==
    [][(FocusOnFirstMatch /\ Visible = {}) => transform' = transform]_vars

\* C10: with minValue above the largest node value isVisible is false for every
\* node, under every depth limit and collapse set, and fitToContent called in
\* that state returns the camera it was given, for every viewport.
C10_AboveMaxHidesAllAndFitKeepsCamera ==
    \A ma \in Thresholds \cup {minAmt} :
        ma > amtMax(nodes) =>
            \A md \in DepthLimits \cup {maxDepth}, coll \in CollapseSets \cup {collapsed} :
                /\ \A i \in 1 .. Len(nodes) : ~isVisible(nodes, md, ma, coll, i)
                /\ \A vp \in Viewports :
                      fitToContent(nodes, md, ma, coll, vp, transform, FitPad) = transform

\* The commit after a regeneration whose largest value is below minAmt: its
\* fitToContent(60) has run with every node hidden, on a camera a fit had set.
C10_Witness ==
    /\ pc = "rerender"
    /\ minAmt > amtMax(nodes)
    /\ Len(nodes) > 1
    /\ transform.scale # InitScale

\* The query without its leading and trailing blanks, read off its first and
\* last non-blank positions.
NonBlank(str) == { k \in 1 .. Len(str) : str[k] # " " }

Trimmed(str) ==
    IF NonBlank(str) = {} THEN <<>>
    ELSE SubSeq(str, CHOOSE k \in NonBlank(str) : \A j \in NonBlank(str) : k <= j,
                     CHOOSE k \in NonBlank(str) : \A j \in NonBlank(str) : j <= k)

SameLetter(a, b) == toLowerCase(<<a>>) = toLowerCase(<<b>>)

\* The node's name contains str, letters compared regardless of case, or its id
\* written in decimal is str.
NameOrIdMatches(n, str) ==
    \/ \E o \in 0 .. Len(Name(n)) - Len(str) :
           \A k \in 1 .. Len(str) : SameLetter(Name(n)[o + k], str[k])
    \/ String(n.id) = str

MatchingNodes(qy) == { i \in 1 .. Len(nodes) : NameOrIdMatches(nodes[i], Trimmed(qy)) }

\* C11: focusOnFirstMatch picks the first node in list order whose name contains
\* the trimmed query case-insensitively or whose id as a string equals it; on a
\* match the scale becomes max(scale, 0.6) and the matched node maps to
\* (width / 2, height / 4); with no match or an empty query the camera is
\* unchanged.
C11_FocusPutsFirstMatchAtAnchor ==
    \A qy \in Queries \cup {query} :
        LET after == focusOnFirstMatch(nodes, qy, viewport, transform)
            found == MatchingNodes(qy)
        IN  IF Trimmed(qy) = <<>> \/ found = {}
            THEN after = transform
            ELSE LET i == CHOOSE k \in found : \A j \in found : k <= j
                 IN  /\ after.scale = RMax(transform.scale, FocusScale)
                     /\ worldToScreen(after, <<nodes[i].x, nodes[i].y>>)
                           = <<RNorm(viewport[1], 2), RNorm(viewport[2], 4)>>

\* The locate button has put node 2, found by name with a query in another
\* case, on the anchor point.
C11_Witness ==
    /\ pc = "idle"
    /\ query = <<"M", "0">>
    /\ Len(nodes) >= 2
    /\ MatchingNodes(query) # {}
    /\ 1 \notin MatchingNodes(query)
    /\ worldToScreen(transform, <<nodes[2].x, nodes[2].y>>)
          = <<RNorm(viewport[1], 2), RNorm(viewport[2], 4)>>
    /\ transform = focusOnFirstMatch(nodes, query, viewport, transform)

\* C12 as stated: with maxDepth = 0, for every collapse set and every minValue,
\* the visible set is exactly {root}.
C12_OnlyRootVisibleAtDepthZero ==
    TreeDone =>
        \A coll \in CollapseSets, ma \in Thresholds :
            VisibleSet(nodes, 0, ma, coll) = {1}

\* C12 amended: with maxDepth = 0, for every collapse set and every minValue, no
\* node other than the root is visible, and the root is visible exactly when
\* minValue is not above the root's value, which is 0.
C12_AtMostRootVisibleAtDepthZero ==
    TreeDone =>
        /\ nodes[1].value = 0
        /\ \A coll \in CollapseSets, ma \in Thresholds :
              VisibleSet(nodes, 0, ma, coll) = IF ma <= 0 THEN {1} ELSE {}

\* A finished tree of the largest size with a valued node below the root: at
\* depth limit 0 the root alone is visible, also when it is collapsed, and
\* nothing is once minValue is 1.
C12_Witness ==
    /\ TreeDone
    /\ Len(nodes) = MaxTotal
    /\ \E i \in 2 .. Len(nodes) : nodes[i].value >= 1
    /\ VisibleSet(nodes, 0, 0, {1}) = {1}
    /\ VisibleSet(nodes, 0, 1, {}) = {}

\* C13: in every reachable state at most one redraw callback is pending, and it
\* is the one drawReq.current names: each requestDraw cancels the callback
\* scheduled before it, so a burst of requests leaves one draw for the next
\* refresh and none queued twice.
C13_AtMostOnePendingDraw ==
    /\ Cardinality(raf.queue) <= 1
    /\ raf.queue \subseteq {raf.req}
    /\ Cardinality(requestDraw(requestDraw(raf)).queue) = 1

\* A wheel event has requested a draw while the one requested by the commit's
\* effects had not run yet: one callback is pending.
C13_Witness ==
    /\ pc = "idle"
    /\ zooming
    /\ budget.events = AnyEvents.events - 1
    /\ Cardinality(raf.queue) = 1

\* C14: every change of maxDepth or minValue re-fits the camera to the nodes
\* visible under the new values and leaves a redraw requested, without
\* regenerating the nodes; every change of the node count starts a regeneration.
C14_FilterChangeRefitsAndRedraws ==
    [][/\ (maxDepth' # maxDepth \/ minAmt' # minAmt) =>
              /\ nodes' = nodes
              /\ transform' = fitToContent(nodes, maxDepth', minAmt', collapsed,
                                           viewport, transform, FitPad)
              /\ raf'.queue # {}
       /\ count' # count => (pc' = "gen" /\ nodes' = <<Root>>)]_vars

\* The pointer is more than 5 px away from where it went down.
MovedFar(p, d) == (p[1] - d[1]) * (p[1] - d[1]) + (p[2] - d[2]) * (p[2] - d[2]) > 25

\* C15: a pointerMove more than 5 px from the pointerDown position marks the
\* gesture, pointerUp keeps the mark, and the click that follows changes nothing
\* in the collapse set and uses the mark up; a fresh pointerDown leaves no mark,
\* and a click without mark and outside a wheel window toggles the node it hits.
C15_ClickAfterDragSuppressedOnce ==
    [][/\ (onPointerMove /\ MovedFar(lastPos', downRef)) => suppressClick'
       /\ (onPointerUp /\ suppressClick) => suppressClick'
       /\ (onClick /\ suppressClick) => (collapsed' = collapsed /\ ~suppressClick')
       /\ onPointerDown => ~suppressClick'
       /\ (onClick /\ ~suppressClick /\ ~zooming) => collapsed' # collapsed]_vars

\* A drag session after down, a move that panned the camera by (30, 40), up and
\* one click: the click changed nothing and the mark is used up.
C15_Witness ==
    /\ budget.pointer = DragSession.pointer - 3
    /\ budget.clicks = DragSession.clicks - 1
    /\ budget.events = DragSession.events - 4
    /\ ~dragging
    /\ lastPos = <<30, 40>>
    /\ collapsed = {}
    /\ ~suppressClick

\* C16: whenever the suppress-next-click flag is set, by a drag beyond 5 px or
\* by a wheel event, it is cleared again, by the next click or by a timeout,
\* without any other event being needed.
C16_SuppressFlagEventuallyCleared == suppressClick ~> ~suppressClick

\* generateTree called with a total below 1 does not return a node list.
TotalBelowOneRejected == count < 1 => ~TreeDone

\* isVisible gives no answer for a maxDepth below 0.
NegativeDepthRejected ==
    TreeDone => \A i \in 1 .. Len(nodes) : isVisible(nodes, -1, 0, {}, i) \notin BOOLEAN

\* C17: invalid configuration is rejected instead of being accepted or clamped:
\* generateTree with total < 1 returns no node list, and the visibility
\* evaluation does not accept a maxDepth < 0.
C17_InvalidConfigurationRejected == TotalBelowOneRejected /\ NegativeDepthRejected

\* C18: whatever the interleaving of wheel events, their 350 ms timers, pointer
\* events and clicks, a click less than 350 ms after the most recent wheel event,
\* that is while that event's timer is still pending, never changes the
\* collapse set.
C18_NoToggleWithinWheelWindow ==
    [][(onClick /\ timers > 0) => collapsed' = collapsed]_vars

\* The node at position i maps onto the canvas or within DrawPad pixels of it.
OnPaddedCanvas(i) ==
    LET s == worldToScreen(transform, <<nodes[i].x, nodes[i].y>>)
    IN  /\ RLe(R(-DrawPad), s[1])
        /\ RLe(s[1], R(viewport[1] + DrawPad))
        /\ RLe(R(-DrawPad), s[2])
        /\ RLe(s[2], R(viewport[2] + DrawPad))

\* The positions of the immediate children of node position i that pass the
\* amount filter.
CountedChildren(i) ==
    { j \in 1 .. Len(nodes) : nodes[j].parentId = nodes[i].id /\ nodes[j].value >= minAmt }

RECURSIVE TotalValue(_)
TotalValue(S) ==
    IF S = {} THEN 0
    ELSE LET j == CHOOSE k \in S : TRUE IN nodes[j].value + TotalValue(S \ {j})

ClusterModeExpected == lod /\ RLt(transform.scale, <<35, 100>>)

ExpectedClusters ==
    { [id |-> nodes[i].id, x |-> nodes[i].x, y |-> nodes[i].y,
       count |-> Cardinality(CountedChildren(i)), sum |-> TotalValue(CountedChildren(i))] :
        i \in { j \in 1 .. Len(nodes) : nodes[j].depth = 1 /\ OnPaddedCanvas(j) } }

ExpectedNodes == { nodes[i].id : i \in { j \in Visible : OnPaddedCanvas(j) } }

\* C19: a draw uses cluster mode exactly when LOD is on and the scale is below
\* 0.35; in cluster mode it produces one record for every depth-1 node inside
\* the padded viewport rectangle and for no other node, with the number and the
\* total value of that node's immediate children of value >= minAmt, whatever
\* the collapse set and maxDepth are; otherwise it draws exactly the nodes that
\* are visible and inside the padded viewport rectangle.
C19_DrawClustersOrVisibleNodes ==
    [][Frame =>
        /\ (painted'.mode = "cluster") <=> ClusterModeExpected
        /\ painted'.mode \in {"cluster", "nodes"}
        /\ painted'.mode = "cluster" =>
              /\ painted'.groups = ExpectedClusters
              /\ painted'.drawn = {}
              /\ \A coll \in CollapseSets, md \in DepthLimits :
                    draw(nodes, md, minAmt, coll, transform, viewport, lod) = painted'
        /\ painted'.mode = "nodes" =>
              /\ painted'.drawn = ExpectedNodes
              /\ painted'.groups = {}]_vars

\* A cluster frame that is still current, with a child left out of a cluster's
\* count by the amount filter.
C19_Witness ==
    /\ pc = "idle"
    /\ painted.mode = "cluster"
    /\ painted = draw(nodes, maxDepth, minAmt, collapsed, transform, viewport, lod)
    /\ \E g \in painted.groups :
          g.count < Cardinality({ j \in 1 .. Len(nodes) : nodes[j].parentId = g.id })


\* The level a single draw u, in hundredths, selects through the cumulative
\* thresholds 0.15, 0.40 and 0.70.
CumulativeLevel(u) ==
    CASE u < 15 -> "S"
      [] 15 <= u /\ u < 40 -> "A"
      [] 40 <= u /\ u < 70 -> "B"
      [] OTHER -> "C"

\* C20: each generated non-root node's level is determined by a single uniform
\* draw mapped through the cumulative thresholds (S below 0.15, A below 0.40, B
\* below 0.70, C otherwise), and the level assignment consumes exactly one value
\* of the random sequence.
C20_LevelFromSingleDraw ==
    level # "none" => Len(levelRnd) = 1 /\ level = CumulativeLevel(levelRnd[1])

\* An unsuppressed click at screen point s that hits a node is being taken.
FirstClickAt(s) ==
    /\ onClick
    /\ ~(suppressClick \/ zooming)
    /\ HitTest(nodes, maxDepth, ClickClosureMinAmt, collapsed, transform, s) # 0
    /\ collapsed' = Toggle(collapsed,
            nodes[HitTest(nodes, maxDepth, ClickClosureMinAmt, collapsed, transform, s)].id)

\* What the handler bound after that click finds at the same point: the
\* position of the node it hits, 0 when it hits none and changes nothing.
SecondHitAt(s) == HitTest(nodes', maxDepth', ClickClosureMinAmt', collapsed', transform', s)

\* C21: with camera, filters and node data unchanged, two successive unsuppressed
\* clicks at the same screen point hit the same node and leave the collapse set
\* as it was before the first click.
C21_TwoClicksRestoreCollapseSet ==
    [][\A s \in ClickPoints(nodes, transform) :
          FirstClickAt(s) =>
              /\ SecondHitAt(s) =
                    HitTest(nodes, maxDepth, ClickClosureMinAmt, collapsed, transform, s)
              /\ Toggle(collapsed', nodes[SecondHitAt(s)].id) = collapsed]_vars

====
